---- MODULE Spec2Model ----
(***************************************************************************)
(* racestrategy.py: ranking of pit strategies for a timed race with one    *)
(* mandatory stop.                                                         *)
(*                                                                         *)
(* Units.  A timedelta is its number of microseconds (the resolution of    *)
(* datetime.timedelta).  litres_per_lap is a float; the model draws it     *)
(* from the quarter litres (k/4), which a double holds exactly, so that    *)
(* litres_per_lap * laps + 1 is computed without rounding; it is carried   *)
(* as the integer k.  A float that is the quotient of two timedeltas       *)
(* (laps_at_zero) is carried as [num, den]: the double nearest num/den.    *)
(***************************************************************************)
EXTENDS Integers, Sequences, FiniteSets, TLC

VARIABLES
    entry,                \* "main": the program is run; "call": get_strategies is called directly
    args,                 \* argparse namespace (main) / the call's scalar arguments
    strategies_to_times,  \* the mapping handed to get_strategies, in insertion order: <<key, lap_times>>
    pc,                   \* position of the run
    frames,               \* locals of get_strategies' loop body, per evaluated strategy
    ranked,               \* the OrderedDict get_strategies returned: <<key, StrategyResult>> in order
    stdout,               \* lines printed so far
    fastest_time,         \* main's local
    fastest_laps,         \* main's local
    idx                   \* position of main's loop over the ranked items

vars == <<entry, args, strategies_to_times, pc, frames, ranked, stdout,
          fastest_time, fastest_laps, idx>>

(***************************************************************************)
(* Program constants                                                       *)
(***************************************************************************)
TIME_TO_CHANGE_TYRES == 20000000
TIME_TO_FILL_ONE_LITRE == 190000
FUEL_SAFETY_BUFFER_LITRES == 1
\* FUEL_SAFETY_EXTRA_LAP_THRESHOLD = 0.15, as the fraction 3/20
THRESHOLD_NUM == 3
THRESHOLD_DEN == 20
TIME_LOST_AT_RACE_START == 3000000
STRATEGY_ARGS == <<"soft-50", "med-50", "med-99">>

\* TYRE_DETERIORATION[strat] / 2 in tenths: 1.4 / 2 = 0.7, 0.4 / 2 = 0.2
HalfDeteriorationTenths(strat) ==
    CASE strat = "soft_50" -> 7
      [] strat = "med_50" -> 2
      [] strat = "med_99" -> 2

\* arg.replace("-", "_")
Underscored(arg) ==
    CASE arg = "soft-50" -> "soft_50"
      [] arg = "med-50" -> "med_50"
      [] arg = "med-99" -> "med_99"

\* None, where the code only tests truthiness: an option that never occurred
\* (argparse yields None or a non-empty list, never an empty one)
None == <<>>
\* main's fastest_time = None; "not fastest_time" holds of None and of 0:00:00
NoTime == 0
\* main's fastest_laps = None
NoLaps == [num |-> 0, den |-> 1]

(***************************************************************************)
(* Bounds and the inputs drawn                                             *)
(***************************************************************************)
MaxSamples == 2

\* practice laps of 18 s and 36.1 s
SampleTimes == {18000000, 36100000}
MaxRaceMinutes == 3
\* --race-time is whole minutes: the short races, and a half-hour race
RaceMinutes == (1..MaxRaceMinutes) \cup {30}
\* race durations of direct calls: 60.800475 s, 64.0005 s, 171.29175 s
CallRaceTimes == {60800475, 64000500, 171291750}
\* 0.25, 3.0 and 3.25 litres per lap, in quarter litres
LitresPerLap == {1, 12, 13}
\* pit transit loss: none, and the default of 10 s
PitLosses == {0, 10000000}

RECURSIVE Sum(_)
Sum(s) == IF s = <<>> THEN 0 ELSE Head(s) + Sum(Tail(s))

SeqsUpTo(S, n) == UNION {[1..k -> S] : k \in 0..n}

\* statistics.mean followed by timedelta(seconds=...) rounds the exact mean to
\* the nearest microsecond; a mean that falls exactly on a half microsecond
\* is decided by the float's last bits, so such sample lists are not drawn.
ExactlyRounded(s) == s = <<>> \/ 2 * (Sum(s) % Len(s)) # Len(s)

SampleLists == {s \in SeqsUpTo(SampleTimes, MaxSamples) : s # <<>> /\ ExactlyRounded(s)}

\* the value of a --soft-50/--med-50/--med-99 attribute: None or a non-empty list
OptionValues == {None} \cup SampleLists

Keys == {"soft_50", "med_50", "med_99"}

\* mappings a direct caller may pass: distinct keys in any order, each with
\* an empty list or one sample
CallLists == {<<>>, <<18000000>>}
CallMappings ==
    {m \in SeqsUpTo(Keys \X CallLists, 3) :
        \A i, j \in 1..Len(m) : i # j => m[i][1] # m[j][1]}

(***************************************************************************)
(* Arithmetic of timedelta and float                                       *)
(***************************************************************************)
\* timedelta / int and timedelta(microseconds=float): round half to even
RoundHalfEven(x, n) ==
    LET q == x \div n
        r == x % n
    IN  IF 2 * r > n \/ (2 * r = n /\ q % 2 = 1) THEN q + 1 ELSE q

\* math.ceil of the quotient of two positive integers
CeilDiv(a, b) == (a + b - 1) \div b

RECURSIVE Log2Floor(_)
Log2Floor(n) == IF n < 2 THEN 0 ELSE 1 + Log2Floor(n \div 2)

\* For a quotient whose exact value is n + 17/20: is the double that holds it
\* greater than the exact value?  With 2^e <= value < 2^(e+1) the 53-bit
\* significand is (20n+17) * 2^(50-e) / 5 rounded to nearest, and 20n+17 is
\* 2 mod 5, so the remainder is 2 * 2^(50-e) mod 5: 3 or 4 rounds up.
RoundedUp(x) ==
    LET n == x.num \div x.den
        e == IF n = 0 THEN -1 ELSE Log2Floor(n)
    IN  ((50 - e) % 4) \in {1, 2}

\* comparison of two doubles num/den (distinct quotients of microsecond
\* counts are distinct doubles); within one call all numerators are race_time
FloatGeq(x, y) ==
    IF x.num = y.num THEN x.den <= y.den ELSE x.num * y.den >= y.num * x.den

\* timedelta * float for the factors 0.7 and 0.2: the double 0.7 is below
\* 7/10, so a product ending in exactly half a microsecond rounds down;
\* the double 0.2 is above 2/10 and its products never end in a half.
TimesTenths(t, tenths) ==
    IF tenths = 7 THEN (7 * t + 4) \div 10 ELSE (tenths * t + 5) \div 10

(***************************************************************************)
(* The functions of the program                                            *)
(***************************************************************************)
\* slip: med_99 refuels everything at the stop
get_pit_stop_time_full_refill(strategy, litres) ==
    LET refill_time == litres * TIME_TO_FILL_ONE_LITRE
        half == RoundHalfEven(refill_time, 2)
    IN  CASE strategy = "soft_50" ->
                IF half > TIME_TO_CHANGE_TYRES THEN half ELSE TIME_TO_CHANGE_TYRES
          [] strategy = "med_50" -> half
          [] strategy = "med_99" -> refill_time

get_pit_stop_time_for_strategy(strategy, litres) ==
    LET refill_time == litres * TIME_TO_FILL_ONE_LITRE
        half == RoundHalfEven(refill_time, 2)
    IN  CASE strategy = "soft_50" ->
                IF half > TIME_TO_CHANGE_TYRES THEN half ELSE TIME_TO_CHANGE_TYRES
          [] strategy = "med_50" -> half
          [] strategy = "med_99" -> TIME_TO_FILL_ONE_LITRE

\* slip: whole laps rounded down
calculate_laps_floor(race_time, lap_time, full) ==
    IF full THEN race_time \div lap_time
    ELSE [num |-> race_time, den |-> lap_time]

calculate_laps(race_time, lap_time, full) ==
    IF full THEN CeilDiv(race_time, lap_time)
    ELSE [num |-> race_time, den |-> lap_time]

\* slip: laps / litres_per_lap
calculate_fuel_divided(litres_per_lap, laps) ==
    CeilDiv(4 * laps + litres_per_lap * FUEL_SAFETY_BUFFER_LITRES, litres_per_lap)

\* math.ceil(litres_per_lap * laps + 1), litres_per_lap in quarter litres
calculate_fuel(litres_per_lap, laps) ==
    CeilDiv(litres_per_lap * laps + 4 * FUEL_SAFETY_BUFFER_LITRES, 4)

calculate_total_time(laps, lap_time) == lap_time * laps

calculate_lost_time(pit_stop_time, time_lost_driving_through_pits) ==
    TIME_LOST_AT_RACE_START + time_lost_driving_through_pits + pit_stop_time

\* timedelta(seconds=statistics.mean([x.total_seconds() for x in lap_times]))
MeanLapTime(lap_times) == RoundHalfEven(Sum(lap_times), Len(lap_times))

\* raw_lap_time += raw_lap_time / 100 * (TYRE_DETERIORATION[strat] / 2)
AdjustedLapTime(strat, raw_lap_time) ==
    raw_lap_time
      + TimesTenths(RoundHalfEven(raw_lap_time, 100), HalfDeteriorationTenths(strat))

\* slip: the amortised loss is taken off the lap time
NormalisedLapTimeSubtracted(raw_lap_time, lost_time, naive_laps) ==
    raw_lap_time - RoundHalfEven(lost_time, naive_laps)

\* lap_time = raw_lap_time + calculate_lost_time(...) / naive_laps
NormalisedLapTime(raw_lap_time, lost_time, naive_laps) ==
    raw_lap_time + RoundHalfEven(lost_time, naive_laps)

\* slip: the part of the lap already driven, laps_at_zero - floor(laps_at_zero),
\* is compared with the threshold
ExtraLapNeededPastLine(laps_at_zero) ==
    THRESHOLD_DEN * (laps_at_zero.num % laps_at_zero.den)
        <= THRESHOLD_NUM * laps_at_zero.den

\* math.ceil(laps_at_zero) - laps_at_zero <= FUEL_SAFETY_EXTRA_LAP_THRESHOLD,
\* on doubles: the subtraction is exact, and the double 0.15 lies below 3/20
\* by less than the spacing of the differences, so only an exact quotient
\* whose gap is exactly 3/20 is decided by the rounding of the quotient.
ExtraLapNeeded(laps_at_zero) ==
    LET gap == CeilDiv(laps_at_zero.num, laps_at_zero.den) * laps_at_zero.den
                 - laps_at_zero.num
    IN  IF THRESHOLD_DEN * gap = THRESHOLD_NUM * laps_at_zero.den
        THEN RoundedUp(laps_at_zero)
        ELSE THRESHOLD_DEN * gap < THRESHOLD_NUM * laps_at_zero.den

\* slip: two laps added
FuelLapsTwoExtra(laps, laps_at_zero) ==
    IF ExtraLapNeeded(laps_at_zero) THEN laps + 2 ELSE laps

FuelLaps(laps, laps_at_zero) ==
    IF ExtraLapNeeded(laps_at_zero) THEN laps + 1 ELSE laps

\* the locals of one iteration of get_strategies' loop
LoopBody(strat, lap_times, race_time, litres_per_lap, time_lost_driving_through_pits) ==
    LET raw_lap_time == AdjustedLapTime(strat, MeanLapTime(lap_times))
        naive_laps == calculate_laps(race_time, raw_lap_time, TRUE)
        naive_fuel == calculate_fuel(litres_per_lap, naive_laps)
        pit_stop_time == get_pit_stop_time_for_strategy(strat, naive_fuel)
        lap_time == NormalisedLapTime(
                        raw_lap_time,
                        calculate_lost_time(pit_stop_time, time_lost_driving_through_pits),
                        naive_laps)
        laps == calculate_laps(race_time, lap_time, TRUE)
        laps_at_zero == calculate_laps(race_time, lap_time, FALSE)
        fuel_laps == FuelLaps(laps, laps_at_zero)
    IN  [raw_lap_time |-> raw_lap_time,
         naive_laps |-> naive_laps,
         naive_fuel |-> naive_fuel,
         pit_stop_time |-> pit_stop_time,
         lap_time |-> lap_time,
         laps |-> laps,
         laps_at_zero |-> laps_at_zero,
         fuel_laps |-> fuel_laps,
         fuel |-> calculate_fuel(litres_per_lap, fuel_laps),
         time |-> calculate_total_time(laps, lap_time)]

\* slip: the whole lost time, race start included, reported as pit_stop_time
StrategyResultWithLostTime(f, time_lost_driving_through_pits) ==
    [laps_at_zero |-> f.laps_at_zero,
     total_laps |-> f.laps,
     total_fuel |-> f.fuel,
     normalised_lap_time |-> f.lap_time,
     total_time |-> f.time,
     pit_stop_time |-> calculate_lost_time(f.pit_stop_time, time_lost_driving_through_pits)]

StrategyResult(f, time_lost_driving_through_pits) ==
    [laps_at_zero |-> f.laps_at_zero,
     total_laps |-> f.laps,
     total_fuel |-> f.fuel,
     normalised_lap_time |-> f.lap_time,
     total_time |-> f.time,
     pit_stop_time |-> f.pit_stop_time + time_lost_driving_through_pits]

\* slip: ranked by the whole laps
SortsBeforeByTotalLaps(a, b) == a[2].total_laps > b[2].total_laps

\* key=lambda r: r[1].laps_at_zero, reverse=True: a goes before b
SortsBefore(a, b) ==
    /\ FloatGeq(a[2].laps_at_zero, b[2].laps_at_zero)
    /\ ~FloatGeq(b[2].laps_at_zero, a[2].laps_at_zero)

\* sorted(..., reverse=True) is stable: an item goes after every item that
\* does not sort after it
RECURSIVE Insert(_, _)
Insert(sorted, item) ==
    IF sorted = <<>> THEN <<item>>
    ELSE IF SortsBefore(item, Head(sorted)) THEN <<item>> \o sorted
    ELSE <<Head(sorted)>> \o Insert(Tail(sorted), item)

RECURSIVE Sorted(_)
Sorted(items) ==
    IF items = <<>> THEN <<>>
    ELSE Insert(Sorted(SubSeq(items, 1, Len(items) - 1)), items[Len(items)])

\* statistics.mean raises StatisticsError on an empty list
Raises(mapping) == \E i \in 1..Len(mapping) : mapping[i][2] = <<>>

\* the items of a dict built by assigning mapping's pairs in order
Frame(mapping, i, a) ==
    LoopBody(mapping[i][1], mapping[i][2], a.race_time, a.litres_per_lap,
             a.time_lost_driving_through_pits)

OutItems(mapping, a) ==
    [i \in 1..Len(mapping) |->
        <<mapping[i][1], StrategyResult(Frame(mapping, i, a), a.time_lost_driving_through_pits)>>]

(***************************************************************************)
(* Initial states                                                          *)
(***************************************************************************)
NoFrames == [k \in {} |-> 0]

InitMain ==
    /\ entry = "main"
    /\ args \in [race_time : {m * 60000000 : m \in RaceMinutes},
                 litres_per_lap : LitresPerLap,
                 time_lost_driving_through_pits : PitLosses,
                 soft_50 : OptionValues,
                 med_50 : OptionValues,
                 med_99 : OptionValues]
    /\ strategies_to_times = <<>>
    /\ pc = "collect"

InitCall ==
    /\ entry = "call"
    /\ args \in [race_time : CallRaceTimes,
                 litres_per_lap : LitresPerLap,
                 time_lost_driving_through_pits : {10000000},
                 soft_50 : {None},
                 med_50 : {None},
                 med_99 : {None}]
    /\ strategies_to_times \in CallMappings
    /\ pc = "call"

Init ==
    /\ InitMain \/ InitCall
    /\ frames = NoFrames
    /\ ranked = <<>>
    /\ stdout = <<>>
    /\ fastest_time = NoTime
    /\ fastest_laps = NoLaps
    /\ idx = 0

(***************************************************************************)
(* Actions                                                                 *)
(***************************************************************************)
Line(kind, strat) == [line |-> kind, strat |-> strat]

\* getattr(args, arg, None)
Attr(a, key) ==
    CASE key = "soft_50" -> a.soft_50
      [] key = "med_50" -> a.med_50
      [] key = "med_99" -> a.med_99

RECURSIVE Collect(_, _)
Collect(a, i) ==
    IF i > Len(STRATEGY_ARGS) THEN <<>>
    ELSE LET arg == Underscored(STRATEGY_ARGS[i])
             times == Attr(a, arg)
         IN  (IF times # None THEN <<<<arg, times>>>> ELSE <<>>)
                \o Collect(a, i + 1)

\* main, lines 199-205
main_collect ==
    /\ pc = "collect"
    /\ strategies_to_times' = Collect(args, 1)
    /\ pc' = "header"
    /\ UNCHANGED <<entry, args, frames, ranked, stdout, fastest_time, fastest_laps, idx>>

\* main, lines 207-210
main_header ==
    /\ pc = "header"
    /\ stdout' = Append(stdout, Line("From best to worst strategy", "-"))
    /\ fastest_time' = NoTime
    /\ fastest_laps' = NoLaps
    /\ pc' = "call"
    /\ UNCHANGED <<entry, args, strategies_to_times, frames, ranked, idx>>

\* get_strategies, called by main (line 212) or directly
get_strategies ==
    /\ pc = "call"
    /\ IF Raises(strategies_to_times)
       THEN /\ pc' = "StatisticsError"
            /\ UNCHANGED <<frames, ranked, idx>>
       ELSE /\ frames' = [k \in {strategies_to_times[i][1] : i \in 1..Len(strategies_to_times)} |->
                             Frame(strategies_to_times,
                                   CHOOSE i \in 1..Len(strategies_to_times) :
                                       strategies_to_times[i][1] = k,
                                   args)]
            /\ ranked' = Sorted(OutItems(strategies_to_times, args))
            /\ idx' = 1
            /\ pc' = IF entry = "main" THEN "print" ELSE "returned"
    /\ UNCHANGED <<entry, args, strategies_to_times, stdout, fastest_time, fastest_laps>>

\* main, lines 218-232: one iteration of the loop over the ranked items
main_print ==
    /\ pc = "print"
    /\ idx <= Len(ranked)
    /\ LET strat == ranked[idx][1]
           res == ranked[idx][2]
           first == fastest_time = NoTime
       IN  /\ stdout' = stdout
                  \o <<Line("strat", strat), Line("Laps at 0 seconds", strat)>>
                  \o (IF first THEN <<>> ELSE <<Line("Time difference from fastest", strat)>>)
                  \o <<Line("Total laps", strat), Line("Total fuel", strat),
                       Line("Normalised lap time", strat), Line("Total time", strat),
                       Line("Pit stop time", strat)>>
           \* fastest_laps * res.normalised_lap_time is race_time to the microsecond
           /\ fastest_laps' = IF first THEN res.laps_at_zero ELSE fastest_laps
           /\ fastest_time' = IF first THEN res.laps_at_zero.num ELSE fastest_time
    /\ idx' = idx + 1
    /\ UNCHANGED <<entry, args, strategies_to_times, pc, frames, ranked>>

\* main returns when the loop is exhausted
main_exit ==
    /\ pc = "print"
    /\ idx > Len(ranked)
    /\ pc' = "done"
    /\ UNCHANGED <<entry, args, strategies_to_times, frames, ranked, stdout,
                   fastest_time, fastest_laps, idx>>

Next ==
    \/ main_collect
    \/ main_header
    \/ get_strategies
    \/ main_print
    \/ main_exit

Spec == Init /\ [][Next]_vars

(***************************************************************************)
(* Properties                                                              *)
(***************************************************************************)
\* get_strategies has returned its ranked mapping
Called == pc \in {"print", "done", "returned"}

Positions == 1..Len(ranked)
Supplied == 1..Len(strategies_to_times)
ResultOf(k) == ranked[CHOOSE i \in Positions : ranked[i][1] = k][2]
TimesOf(k) == strategies_to_times[CHOOSE i \in Supplied : strategies_to_times[i][1] = k][2]
Evaluated == DOMAIN frames

\* a >= b for two laps_at_zero of one call: both are race_time divided by a
\* normalised lap time, so a >= b exactly when a's lap time is not the longer
LapsGeq(a, b) == a.num = b.num /\ a.num > 0 /\ a.den <= b.den

\* n = ceil(x / 4) for integers x, n, stated by its two inequalities
IsCeilOfQuarters(n, x) == 4 * n >= x /\ 4 * (n - 1) < x

\* the part of the lap in progress that is missing when the clock expires,
\* in microseconds of the normalised lap: (ceil(laps_at_zero) - laps_at_zero) * den
MissingPart(r) == r.total_laps * r.laps_at_zero.den - r.laps_at_zero.num

\* ceil(laps_at_zero) - laps_at_zero <= 0.15 of the double laps_at_zero: the
\* exact quotient is within 3/20 of the next whole number, or exactly 3/20
\* short of it while the double holding it lies above it
WithinThreshold(r) ==
    \/ 20 * MissingPart(r) < 3 * r.laps_at_zero.den
    \/ /\ 20 * MissingPart(r) = 3 * r.laps_at_zero.den
       /\ RoundedUp(r.laps_at_zero)

\* C1: the ranked mapping lists the strategies in non-increasing order of
\* laps_at_zero: every adjacent pair (a, b) has a.laps_at_zero >= b.laps_at_zero.
C1_RankedByLapsAtZero ==
    Called =>
        \A i \in Positions :
            i < Len(ranked) =>
                LapsGeq(ranked[i][2].laps_at_zero, ranked[i + 1][2].laps_at_zero)

\* three strategies ranked in another order than they were supplied, two
\* neighbours completing the same whole laps with different laps_at_zero
C1_Witness ==
    /\ Called
    /\ Len(ranked) = 3
    /\ ranked[1][1] # strategies_to_times[1][1]
    /\ \E i \in 1..2 :
          /\ ranked[i][2].total_laps = ranked[i + 1][2].total_laps
          /\ ranked[i][2].laps_at_zero.den < ranked[i + 1][2].laps_at_zero.den

\* C2: in every result total_laps is the integer ceil(laps_at_zero) with
\* laps_at_zero = race_duration / normalised_lap_time: total_laps >= laps_at_zero
\* and total_laps - laps_at_zero < 1.
C2_TotalLapsIsCeil ==
    Called =>
        \A i \in Positions :
            LET r == ranked[i][2]
            IN  /\ r.laps_at_zero.num = args.race_time
                /\ r.laps_at_zero.den = r.normalised_lap_time
                /\ r.total_laps \in Nat
                /\ r.total_laps * r.normalised_lap_time >= args.race_time
                /\ (r.total_laps - 1) * r.normalised_lap_time < args.race_time

\* a result whose laps_at_zero is not whole, so that rounding up adds to it
C2_Witness ==
    /\ Called
    /\ \E i \in Positions :
          ranked[i][2].total_laps * ranked[i][2].normalised_lap_time > args.race_time

\* C3: total_fuel = ceil(litres_per_lap * fuel_laps + 1) with fuel_laps =
\* total_laps + 1 exactly when ceil(laps_at_zero) - laps_at_zero <= 0.15
\* (a whole laps_at_zero included), and fuel_laps = total_laps otherwise.
C3_FuelWithExtraLap ==
    Called =>
        \A i \in Positions :
            LET r == ranked[i][2]
                fuel_laps == IF WithinThreshold(r) THEN r.total_laps + 1 ELSE r.total_laps
            IN  IsCeilOfQuarters(r.total_fuel, args.litres_per_lap * fuel_laps + 4)

\* a result whose exact laps_at_zero is 0.15 short of a whole lap, held by a
\* double above it, carrying the extra lap's fuel
C3_Witness ==
    /\ Called
    /\ \E i \in Positions :
          LET r == ranked[i][2]
          IN  /\ 20 * MissingPart(r) = 3 * r.laps_at_zero.den
              /\ IsCeilOfQuarters(r.total_fuel, args.litres_per_lap * (r.total_laps + 1) + 4)
              /\ ~IsCeilOfQuarters(r.total_fuel, args.litres_per_lap * r.total_laps + 4)

\* the other cases of the rule that the runs reach: a whole laps_at_zero
\* (extra lap), an exact quotient 0.15 short held by a double below it (no
\* extra lap), and a quotient more than 0.15 short (no extra lap)
C3_WholeLapsReached ==
    /\ Called
    /\ \E i \in Positions :
          /\ MissingPart(ranked[i][2]) = 0
          /\ ~IsCeilOfQuarters(ranked[i][2].total_fuel,
                               args.litres_per_lap * ranked[i][2].total_laps + 4)

C3_BoundaryBelowReached ==
    /\ Called
    /\ \E i \in Positions :
          /\ 20 * MissingPart(ranked[i][2]) = 3 * ranked[i][2].laps_at_zero.den
          /\ ~RoundedUp(ranked[i][2].laps_at_zero)
          /\ ~IsCeilOfQuarters(ranked[i][2].total_fuel,
                               args.litres_per_lap * (ranked[i][2].total_laps + 1) + 4)

C3_OverThresholdReached ==
    /\ Called
    /\ \E i \in Positions :
          /\ 20 * MissingPart(ranked[i][2]) > 3 * ranked[i][2].laps_at_zero.den
          /\ ~IsCeilOfQuarters(ranked[i][2].total_fuel,
                               args.litres_per_lap * (ranked[i][2].total_laps + 1) + 4)

\* C4, as claimed: med-50 and med-99 supplied with the same samples: med-99's
\* pit-stop time is strictly smaller than med-50's and its laps_at_zero is
\* not smaller, for every input.
BothMediums ==
    /\ Called
    /\ {"med_50", "med_99"} \subseteq Evaluated
    /\ TimesOf("med_50") = TimesOf("med_99")

C4_Med99StrictlyShorterStop ==
    BothMediums =>
        /\ frames["med_99"].pit_stop_time < frames["med_50"].pit_stop_time
        /\ LapsGeq(ResultOf("med_99").laps_at_zero, ResultOf("med_50").laps_at_zero)

\* C4, amended: med-99's pit-stop time is never larger than med-50's, it is
\* strictly smaller exactly when the naive fuel exceeds 2 litres, and med-99's
\* laps_at_zero is not smaller than med-50's.
C4_Med99NotLongerStop ==
    BothMediums =>
        /\ frames["med_99"].pit_stop_time <= frames["med_50"].pit_stop_time
        /\ (frames["med_99"].pit_stop_time < frames["med_50"].pit_stop_time)
              <=> (frames["med_50"].naive_fuel > 2)
        /\ frames["med_50"].naive_fuel >= 2
        /\ LapsGeq(ResultOf("med_99").laps_at_zero, ResultOf("med_50").laps_at_zero)

\* both mediums with a naive fuel of 2 litres: the two stops take the same time
C4_Witness ==
    /\ BothMediums
    /\ frames["med_50"].naive_fuel = 2
    /\ frames["med_99"].pit_stop_time = frames["med_50"].pit_stop_time

\* C5: the pit-stop time follows the strategy's formula on the naive fuel
\* (naive fuel = ceil(litres_per_lap * naive_laps + 1), naive_laps =
\* ceil(race_duration / adjusted lap time)); the result's pit_stop_time is
\* that time plus the pit-transit loss, without the 3 s race-start loss,
\* which is amortised into the normalised lap time; soft-50's stop is never
\* below 20 s nor below med-50's for the same naive fuel.
C5_PitStopFormula ==
    Called =>
        \A k \in Evaluated :
            LET f == frames[k]
                r == ResultOf(k)
                half_refill_doubled == f.naive_fuel * 190000
                lost == 3000000 + args.time_lost_driving_through_pits + f.pit_stop_time
                amortised == r.normalised_lap_time - f.raw_lap_time
            IN  /\ f.naive_laps * f.raw_lap_time >= args.race_time
                /\ (f.naive_laps - 1) * f.raw_lap_time < args.race_time
                /\ IsCeilOfQuarters(f.naive_fuel, args.litres_per_lap * f.naive_laps + 4)
                /\ k = "soft_50" =>
                      /\ 2 * f.pit_stop_time =
                            (IF half_refill_doubled >= 40000000
                             THEN half_refill_doubled ELSE 40000000)
                      /\ f.pit_stop_time >= 20000000
                      /\ 2 * f.pit_stop_time >= half_refill_doubled
                /\ k = "med_50" => 2 * f.pit_stop_time = half_refill_doubled
                /\ k = "med_99" => f.pit_stop_time = 190000
                /\ r.pit_stop_time = f.pit_stop_time + args.time_lost_driving_through_pits
                /\ 2 * (amortised * f.naive_laps - lost) <= f.naive_laps
                /\ 2 * (lost - amortised * f.naive_laps) <= f.naive_laps

\* a soft-50 stop set by the refuelling (more than 20 s) with a pit-transit loss
C5_Witness ==
    /\ Called
    /\ "soft_50" \in Evaluated
    /\ frames["soft_50"].pit_stop_time > 20000000
    /\ args.time_lost_driving_through_pits > 0
    /\ ResultOf("soft_50").pit_stop_time =
          frames["soft_50"].pit_stop_time + args.time_lost_driving_through_pits

\* the run of the same strategy on the same inputs with another litres_per_lap
WithLitres(k, litres) ==
    LoopBody(k, TimesOf(k), args.race_time, litres, args.time_lost_driving_through_pits)

\* C6, as claimed: for each strategy total_fuel is non-decreasing in
\* litres_per_lap, everything else fixed.
C6_FuelMonotoneInLitres ==
    Called =>
        \A k \in Evaluated :
            \A f2 \in LitresPerLap :
                f2 >= args.litres_per_lap =>
                    WithLitres(k, f2).fuel >= ResultOf(k).total_fuel

\* C6, amended: total_fuel is non-decreasing in litres_per_lap whenever the
\* larger litres_per_lap does not lower fuel_laps, which it never does for
\* med-99.
C6_FuelMonotoneForFixedFuelLaps ==
    Called =>
        \A k \in Evaluated :
            \A f2 \in LitresPerLap :
                f2 >= args.litres_per_lap =>
                    /\ WithLitres(k, f2).fuel_laps >= frames[k].fuel_laps
                          => WithLitres(k, f2).fuel >= ResultOf(k).total_fuel
                    /\ k = "med_99" =>
                          /\ WithLitres(k, f2).fuel_laps = frames[k].fuel_laps
                          /\ WithLitres(k, f2).fuel >= ResultOf(k).total_fuel

\* a med-50 run in which more litres per lap lengthen the stop, and one of
\* med-99 in which more litres per lap raise the fuel
C6_Witness ==
    /\ Called
    /\ {"med_50", "med_99"} \subseteq Evaluated
    /\ \E f2 \in LitresPerLap :
          /\ f2 > args.litres_per_lap
          /\ WithLitres("med_50", f2).pit_stop_time > frames["med_50"].pit_stop_time
          /\ WithLitres("med_50", f2).fuel_laps >= frames["med_50"].fuel_laps
          /\ WithLitres("med_99", f2).fuel > ResultOf("med_99").total_fuel

\* C7, as claimed: whatever mapping is passed to get_strategies, a strategy
\* with an empty sample list is skipped without error and the result holds
\* exactly one entry for each strategy with at least one sample.
C7_EmptySampleListsSkipped ==
    /\ pc # "StatisticsError"
    /\ Called =>
          /\ {ranked[i][1] : i \in Positions} =
                {strategies_to_times[i][1] : i \in {j \in Supplied : strategies_to_times[j][2] # <<>>}}
          /\ \A i, j \in Positions : ranked[i][1] = ranked[j][1] => i = j

\* C8, as claimed: a run of main without any strategy option ends without
\* error, prints no strategy block and no best-to-worst header.
C8_NoHeaderWithoutStrategies ==
    (entry = "main" /\ pc = "done" /\ strategies_to_times = <<>>) =>
        /\ ranked = <<>>
        /\ stdout = <<>>

\* C9: the naive lap count is at least the actual lap count, the normalised
\* lap time being at least the deterioration-adjusted lap time.
C9_NaiveLapsAtLeastTotalLaps ==
    Called =>
        \A k \in Evaluated :
            /\ frames[k].naive_laps >= ResultOf(k).total_laps
            /\ ResultOf(k).normalised_lap_time >= frames[k].raw_lap_time

\* one strategy losing a lap to the amortised stop, another keeping them all
C9_Witness ==
    /\ Called
    /\ \E k \in Evaluated : frames[k].naive_laps > ResultOf(k).total_laps
    /\ \E k \in Evaluated : frames[k].naive_laps = ResultOf(k).total_laps

\* C10, as claimed: the fuel reported never exceeds the naive fuel.
C10_NaiveFuelIsUpperBound ==
    Called =>
        \A k \in Evaluated : ResultOf(k).total_fuel <= frames[k].naive_fuel

\* C10, amended: the fuel reported exceeds the naive fuel only when
\* total_laps equals naive_laps and the extra-lap rule adds a lap; it never
\* exceeds the fuel for naive_laps + 1 laps, ceil(litres_per_lap * (naive_laps + 1) + 1).
C10_NaiveFuelBoundButExtraLap ==
    Called =>
        \A k \in Evaluated :
            LET f == frames[k]
                r == ResultOf(k)
            IN  /\ r.total_fuel > f.naive_fuel =>
                      (r.total_laps = f.naive_laps /\ WithinThreshold(r))
                /\ 4 * (r.total_fuel - 1) < args.litres_per_lap * (f.naive_laps + 1) + 4

\* total_laps = naive_laps with the extra lap's fuel: more fuel than the naive fuel
C10_Witness ==
    /\ Called
    /\ \E k \in Evaluated :
          /\ ResultOf(k).total_laps = frames[k].naive_laps
          /\ WithinThreshold(ResultOf(k))
          /\ ResultOf(k).total_fuel > frames[k].naive_fuel

====
